---- MODULE Spec2Model ----
(***************************************************************************)
(* Phoenix -> Koinly converter (package converter): Convert reads a        *)
(* Phoenix wallet CSV export, parses every data row into a PhoenixRecord,  *)
(* maps each record to a KoinlyRecord plus a rounding residual, and writes *)
(* the Koinly CSV through a buffered csv.Writer.                           *)
(*                                                                         *)
(* Representation.                                                         *)
(*  - Go strings are TLA+ strings; Char(s, i) is the i-th byte.            *)
(*  - float64 satoshi amounts are carried as integers in millisatoshi      *)
(*    (1 sat = 1000), which is exact for every value the program forms     *)
(*    from the int64 millisatoshi field: sats = msat / 1000.  The sums and *)
(*    differences of the residual are taken in exact arithmetic, i.e. the  *)
(*    model leaves out the binary64 noise of order 1e-9 sat.               *)
(*  - "%.8f" rounds the binary64 quotient to nearest; where the decimal    *)
(*    value is exactly halfway, the direction is the one the binary64      *)
(*    quotient gives (HalfUp).                                             *)
(***************************************************************************)
EXTENDS Integers, Sequences, FiniteSets, TLC

(***************************************************************************)
(* Strings                                                                 *)
(***************************************************************************)
\* s[a-1 : b] clipped to the string.
Sub(s, a, b) ==
  LET lo == IF a < 1 THEN 1 ELSE a
      hi == IF b > Len(s) THEN Len(s) ELSE b
  IN  IF lo > hi THEN "" ELSE SubSeq(s, lo, hi)

\* The i-th byte of s ("" outside the string).
Char(s, i) == Sub(s, i, i)

Digits == {"0", "1", "2", "3", "4", "5", "6", "7", "8", "9"}

IsDigit(c) == c \in Digits

DigitVal(c) ==
  CASE c = "0" -> 0 [] c = "1" -> 1 [] c = "2" -> 2 [] c = "3" -> 3
    [] c = "4" -> 4 [] c = "5" -> 5 [] c = "6" -> 6 [] c = "7" -> 7
    [] c = "8" -> 8 [] c = "9" -> 9

AllDigits(s) == \A i \in 1..Len(s) : IsDigit(Char(s, i))

\* The decimal value of a digit string (Horner).
RECURSIVE DecVal(_)
DecVal(s) ==
  IF Len(s) = 0 THEN 0
  ELSE 10 * DecVal(SubSeq(s, 1, Len(s) - 1)) + DigitVal(Char(s, Len(s)))

\* strings.ReplaceAll(val, ",", "")
RECURSIVE ReplaceAllCommas(_)
ReplaceAllCommas(s) ==
  IF Len(s) = 0 THEN ""
  ELSE IF Head(s) = "," THEN ReplaceAllCommas(Tail(s))
       ELSE Head(s) \o ReplaceAllCommas(Tail(s))

RECURSIVE StripLeadingZeros(_)
StripLeadingZeros(s) ==
  IF Len(s) > 0 /\ Head(s) = "0" THEN StripLeadingZeros(Tail(s)) ELSE s

\* Decimal digit strings of equal length: a <= b.
RECURSIVE DigitsLeq(_, _)
DigitsLeq(a, b) ==
  IF Len(a) = 0 THEN TRUE
  ELSE IF Head(a) = Head(b) THEN DigitsLeq(Tail(a), Tail(b))
       ELSE DigitVal(Head(a)) < DigitVal(Head(b))

RECURSIVE ZeroPad(_, _)
ZeroPad(s, w) == IF Len(s) >= w THEN s ELSE ZeroPad("0" \o s, w)

\* n written in decimal with at least w digits ("%0wd").
Pad(n, w) == ZeroPad(ToString(n), w)

RECURSIVE RightPad(_, _)
RightPad(s, w) == IF Len(s) >= w THEN s ELSE RightPad(s \o "0", w)

Abs(x) == IF x < 0 THEN 0 - x ELSE x

(***************************************************************************)
(* strconv.ParseInt(s, 10, 64)                                             *)
(***************************************************************************)
MaxInt64Digits == "9223372036854775807"
MinInt64Digits == "9223372036854775808"

\* The magnitude m (digits, no leading zeros) fits int64 with the given sign.
InInt64Range(m, neg) ==
  \/ Len(m) < Len(MaxInt64Digits)
  \/ /\ Len(m) = Len(MaxInt64Digits)
     /\ DigitsLeq(m, IF neg THEN MinInt64Digits ELSE MaxInt64Digits)

ParseInt(s) ==
  LET signed == Len(s) > 0 /\ Head(s) \in {"+", "-"}
      neg    == Len(s) > 0 /\ Head(s) = "-"
      body   == IF signed THEN Tail(s) ELSE s
      m      == StripLeadingZeros(body)
  IN  IF Len(body) = 0 \/ ~AllDigits(body) THEN [ok |-> FALSE, v |-> 0]
      ELSE IF ~InInt64Range(m, neg) THEN [ok |-> FALSE, v |-> 0]
      ELSE [ok |-> TRUE, v |-> IF neg THEN 0 - DecVal(m) ELSE DecVal(m)]

(***************************************************************************)
(* Constants of the package                                                *)
(***************************************************************************)
satsPerBTC == 100000000
msatsPerSat == 1000

(***************************************************************************)
(* Bounds of the model                                                     *)
(***************************************************************************)
\* The largest number of data rows of an input.
MaxRows == 3
\* The size of the bufio buffer in bytes.  bufio's default is 4096; the
\* model takes a buffer that holds the header row (150 bytes) and that the
\* rows of one input overflow, up to twice, so that the flushes in the
\* middle of a run happen within MaxRows rows.
BufSize == 160

(***************************************************************************)
(* FormatBTC(sats) = fmt.Sprintf("%.8f", sats/satsPerBTC).                 *)
(* The argument is the float64 satoshi amount in millisatoshi.  The digits *)
(* are those of the amount rounded to a whole satoshi; a negative amount   *)
(* keeps its sign even when it rounds to zero ("-0.00000000").             *)
(***************************************************************************)
\* Whether the binary64 value of (k + 0.5) / 1e8 lies above the decimal
\* halfway point, for the halfway amounts of the model's inputs.
HalfUp == [k \in 0..9 |-> k \in {0, 3, 5, 9}]

\* Mutant of RoundSats: the fraction of a satoshi is cut off.
RoundSatsTruncate(mag) == mag \div msatsPerSat

RoundSats(mag) ==
  LET whole == mag \div msatsPerSat
      rem   == mag % msatsPerSat
  IN  IF 2 * rem > msatsPerSat THEN whole + 1
      ELSE IF 2 * rem < msatsPerSat THEN whole
      ELSE IF HalfUp[whole] THEN whole + 1 ELSE whole

FormatBTC(m) ==
  LET q == RoundSats(Abs(m))
  IN  (IF m < 0 THEN "-" ELSE "")
        \o ToString(q \div satsPerBTC) \o "." \o Pad(q % satsPerBTC, 8)

(***************************************************************************)
(* strconv.ParseFloat(amt, 64) followed by the scaling v * satsPerBTC: the *)
(* value of the decimal string in units of 1e-8 (whole satoshis for a      *)
(* string with 8 decimals).  A string that is not a decimal gives 0, as    *)
(* the code ignores ParseFloat's error.                                    *)
(***************************************************************************)
IndexOfDot(s) ==
  IF \E i \in 1..Len(s) : Char(s, i) = "."
  THEN CHOOSE i \in 1..Len(s) :
         Char(s, i) = "." /\ \A j \in 1..(i - 1) : Char(s, j) # "."
  ELSE 0

ParseFloat(amt) ==
  LET signed == Len(amt) > 0 /\ Head(amt) \in {"+", "-"}
      neg    == Len(amt) > 0 /\ Head(amt) = "-"
      body   == IF signed THEN Tail(amt) ELSE amt
      dot    == IndexOfDot(body)
      ip     == IF dot = 0 THEN body ELSE SubSeq(body, 1, dot - 1)
      fp     == IF dot = 0 THEN "" ELSE SubSeq(body, dot + 1, Len(body))
      ok     == /\ Len(ip) + Len(fp) > 0
                /\ AllDigits(ip) /\ AllDigits(fp) /\ Len(fp) <= 8
      mag    == DecVal(ip) * satsPerBTC + DecVal(RightPad(fp, 8))
  IN  IF ~ok THEN 0 ELSE IF neg THEN 0 - mag ELSE mag

(***************************************************************************)
(* The same arithmetic in binary64, for int64 amounts of any size.         *)
(* Naturals of any width are sequences of limbs in base 10^4, the least    *)
(* significant first and without leading zero limbs (0 is << >>).          *)
(***************************************************************************)
RECURSIVE BigNorm(_)
BigNorm(a) ==
  IF Len(a) > 0 /\ a[Len(a)] = 0 THEN BigNorm(SubSeq(a, 1, Len(a) - 1))
  ELSE a

RECURSIVE BigOfInt(_)
BigOfInt(n) == IF n = 0 THEN <<>> ELSE <<n % 10000>> \o BigOfInt(n \div 10000)

\* a * c + carry, for 0 <= c <= 10^4.
RECURSIVE BigMulAdd(_, _, _)
BigMulAdd(a, c, carry) ==
  IF Len(a) = 0 THEN BigOfInt(carry)
  ELSE LET t == Head(a) * c + carry
       IN  <<t % 10000>> \o BigMulAdd(Tail(a), c, t \div 10000)

BigMul(a, c) == BigNorm(BigMulAdd(a, c, 0))

\* Long division by c, for 0 < c <= 10^4, from the most significant limb:
\* st.a holds the limbs not yet divided, st.q the limbs of the quotient
\* found so far and st.r the remainder carried down.
BigDivStep(st, c) ==
  LET cur == st.r * 10000 + st.a[Len(st.a)]
  IN  [a |-> SubSeq(st.a, 1, Len(st.a) - 1),
       q |-> <<cur \div c>> \o st.q,
       r |-> cur % c]

RECURSIVE BigDivRem(_, _)
BigDivRem(st, c) ==
  IF Len(st.a) = 0 THEN [q |-> BigNorm(st.q), r |-> st.r]
  ELSE BigDivRem(BigDivStep(st, c), c)

\* Quotient q and remainder r of a by c.
BigDiv(a, c) == BigDivRem([a |-> a, q |-> <<>>, r |-> 0], c)

\* -1, 0 or 1 as a < b, a = b or a > b.
RECURSIVE BigCmp(_, _)
BigCmp(a, b) ==
  IF Len(a) # Len(b) THEN (IF Len(a) < Len(b) THEN -1 ELSE 1)
  ELSE IF Len(a) = 0 THEN 0
  ELSE IF a[Len(a)] # b[Len(b)]
       THEN (IF a[Len(a)] < b[Len(b)] THEN -1 ELSE 1)
  ELSE BigCmp(SubSeq(a, 1, Len(a) - 1), SubSeq(b, 1, Len(b) - 1))

RECURSIVE BigAddC(_, _, _)
BigAddC(a, b, carry) ==
  IF Len(a) = 0 /\ Len(b) = 0 THEN BigOfInt(carry)
  ELSE LET x == IF Len(a) = 0 THEN 0 ELSE Head(a)
           y == IF Len(b) = 0 THEN 0 ELSE Head(b)
           t == x + y + carry
       IN  <<t % 10000>>
             \o BigAddC(IF Len(a) = 0 THEN a ELSE Tail(a),
                        IF Len(b) = 0 THEN b ELSE Tail(b), t \div 10000)

BigAdd(a, b) == BigAddC(a, b, 0)

\* a - b, for a >= b.
RECURSIVE BigSubB(_, _, _)
BigSubB(a, b, borrow) ==
  IF Len(a) = 0 THEN <<>>
  ELSE LET y == IF Len(b) = 0 THEN 0 ELSE Head(b)
           t == Head(a) - y - borrow
       IN  <<(t + 10000) % 10000>>
             \o BigSubB(Tail(a), IF Len(b) = 0 THEN b ELSE Tail(b),
                        IF t < 0 THEN 1 ELSE 0)

BigSub(a, b) == BigNorm(BigSubB(a, b, 0))

\* a * 2^k and a div 2^k.
RECURSIVE BigShl(_, _)
BigShl(a, k) ==
  IF Len(a) = 0 \/ k = 0 THEN a
  ELSE IF k >= 13 THEN BigShl(BigMul(a, 8192), k - 13)
  ELSE BigMul(a, 2^k)

\* One division of a shift to the right: st.q is the number, st.lost tells
\* that a non-zero bit has been shifted out.
BigShrNote(d, lost) == [q |-> d.q, lost |-> lost \/ d.r # 0]

BigShrStep(st, c) == BigShrNote(BigDiv(st.q, c), st.lost)

RECURSIVE BigShrLost(_, _)
BigShrLost(st, k) ==
  IF Len(st.q) = 0 \/ k = 0 THEN st
  ELSE IF k >= 13 THEN BigShrLost(BigShrStep(st, 8192), k - 13)
  ELSE BigShrStep(st, 2^k)

BigShr(a, k) == BigShrLost([q |-> a, lost |-> FALSE], k).q

\* The number of binary digits of a limb and of a.
LimbBits(v) == Cardinality({b \in 0..13 : 2^b <= v})

RECURSIVE BitLen(_)
BitLen(a) ==
  IF Len(a) = 0 THEN 0
  ELSE IF Len(a) > 1 THEN 13 + BitLen(BigDiv(a, 8192).q)
  ELSE LimbBits(a[1])

BigIsOdd(a) == Len(a) > 0 /\ a[1] % 2 = 1

\* d.q and d.r are a number and the bit below it; sticky tells that
\* there is something below that bit.
BigRoundUp(d, sticky) ==
  IF d.r = 1 /\ (sticky \/ BigIsOdd(d.q)) THEN BigAdd(d.q, <<1>>) ELSE d.q

BigRoundBit(h) == BigRoundUp(BigDiv(h.q, 2), h.lost)

\* a / 2^k rounded to the nearest integer, halves to even; above tells
\* that a stands for a value slightly greater than a.
BigRoundShr(a, k, above) ==
  IF k = 0 THEN a
  ELSE BigRoundBit(BigShrLost([q |-> a, lost |-> above], k - 1))

\* The natural written in decimal as s: four digits to a limb.
RECURSIVE BigLimbs(_)
BigLimbs(s) ==
  IF Len(s) <= 4 THEN <<DecVal(s)>>
  ELSE <<DecVal(SubSeq(s, Len(s) - 3, Len(s)))>>
         \o BigLimbs(SubSeq(s, 1, Len(s) - 4))

BigOfDigits(s) == BigNorm(BigLimbs(s))

RECURSIVE BigDigits(_)
BigDigits(a) ==
  IF Len(a) = 0 THEN "0"
  ELSE IF Len(a) = 1 THEN ToString(a[1])
  ELSE BigDigits(SubSeq(a, 2, Len(a))) \o ZeroPad(ToString(a[1]), 4)

\* A binary64 value is (-1)^neg * m * 2^e with 2^52 <= m < 2^53, or m = 0
\* (the amounts of an int64 stay clear of subnormals and infinities).
Zero64(neg) == [neg |-> neg, m |-> <<>>, e |-> 0]

\* The binary64 nearest to n * 2^e (to slightly more if above), halves to
\* even: the rounding of every IEEE 754 operation.
\* q is the rounded significand: rounding up may have carried it to 2^53.
Renorm64(neg, q, e) ==
  IF BitLen(q) = 54 THEN [neg |-> neg, m |-> BigShr(q, 1), e |-> e + 1]
  ELSE [neg |-> neg, m |-> q, e |-> e]

\* bl is the number of binary digits of n.
Round64Bits(neg, n, e, above, bl) ==
  IF bl = 0 THEN Zero64(neg)
  ELSE IF bl <= 53 THEN [neg |-> neg, m |-> BigShl(n, 53 - bl),
                         e |-> e - (53 - bl)]
  ELSE Renorm64(neg, BigRoundShr(n, bl - 53, above), e + (bl - 53))

Round64(neg, n, e, above) == Round64Bits(neg, n, e, above, BitLen(n))

\* The binary64 nearest to the exact value y.
Round64Of(y) == Round64(y.neg, y.m, y.e, FALSE)

Neg64(x) == [x EXCEPT !.neg = ~x.neg]

\* math.Abs
Abs64(x) == [x EXCEPT !.neg = FALSE]

\* x / c (times = 1) and x / c^2 (times = 2) for 0 < c <= 10^4: the
\* divisions by msatsPerSat = 1000 and by satsPerBTC = 10^4 * 10^4.
DivAgain(d1, d2) == [q |-> d2.q, r |-> IF d1.r # 0 THEN 1 ELSE d2.r]

DivTimes(d1, c, times) ==
  IF times = 2 THEN DivAgain(d1, BigDiv(d1.q, c)) ELSE d1

DivRound(x, d) == Round64(x.neg, d.q, x.e - 64, d.r # 0)

DivBy(x, c, times) ==
  IF Len(x.m) = 0 THEN x
  ELSE DivRound(x, DivTimes(BigDiv(BigShl(x.m, 64), c), c, times))

\* The exact product x * satsPerBTC, not rounded, and the binary64 product.
Times1e8(x) == [x EXCEPT !.m = BigMul(BigMul(@, 10000), 10000)]

MulBy1e8(x) == Round64Of(Times1e8(x))

\* The exact sum of nx * 2^e0 and ny * 2^e0 with their signs; c compares
\* nx with ny.
SumAligned(xneg, nx, yneg, ny, e0, c) ==
  IF xneg = yneg THEN [neg |-> xneg, m |-> BigAdd(nx, ny), e |-> e0]
  ELSE IF c = 0 THEN Zero64(FALSE)
  ELSE IF c > 0 THEN [neg |-> xneg, m |-> BigSub(nx, ny), e |-> e0]
  ELSE [neg |-> yneg, m |-> BigSub(ny, nx), e |-> e0]

SumAt(x, nx, y, ny, e0) ==
  SumAligned(x.neg, nx, y.neg, ny, e0, BigCmp(nx, ny))

SumFrom(x, y, e0) ==
  SumAt(x, BigShl(x.m, x.e - e0), y, BigShl(y.m, y.e - e0), e0)

\* The exact sum x + y; x and y need not be normalised.
Sum64(x, y) ==
  IF Len(x.m) = 0
  THEN (IF Len(y.m) = 0 THEN Zero64(x.neg /\ y.neg) ELSE y)
  ELSE IF Len(y.m) = 0 THEN x
  ELSE SumFrom(x, y, IF x.e < y.e THEN x.e ELSE y.e)

\* x + y rounded once.
Add64(x, y) == Round64Of(Sum64(x, y))

Sub64(x, y) == Add64(x, Neg64(y))

\* float64(n) for the int64 written in decimal as s.
Float64OfInt(s) ==
  LET neg == Len(s) > 0 /\ Head(s) = "-"
  IN  Round64(neg, BigOfDigits(IF neg THEN Tail(s) ELSE s), 0, FALSE)

\* fmt.Sprintf("%.8f", x): the exact value of x rounded to 8 decimals,
\* halves to even.
Fixed8(neg, s) ==
  (IF neg THEN "-" ELSE "")
    \o SubSeq(s, 1, Len(s) - 8) \o "." \o SubSeq(s, Len(s) - 7, Len(s))

Scaled8(n, e) ==
  IF e >= 0 THEN BigShl(n, e) ELSE BigRoundShr(n, 0 - e, FALSE)

Sprintf8(x) ==
  Fixed8(x.neg,
         ZeroPad(BigDigits(Scaled8(BigMul(BigMul(x.m, 10000), 10000), x.e)),
                 9))

\* FormatBTC(sats) on a binary64.
FormatBTC64(sats) == Sprintf8(DivBy(sats, 10000, 2))

\* The digits of a decimal: s without its point.
WithoutDotAt(s, dot) ==
  IF dot = 0 THEN s ELSE SubSeq(s, 1, dot - 1) \o SubSeq(s, dot + 1, Len(s))

WithoutDot(s) == WithoutDotAt(s, IndexOfDot(s))

\* strconv.ParseFloat(amt, 64) of a string FormatBTC returned: the
\* binary64 nearest to the decimal.
ParseFloat64(amt) ==
  LET neg  == Len(amt) > 0 /\ Head(amt) = "-"
      body == WithoutDot(IF neg THEN Tail(amt) ELSE amt)
  IN  DivBy(Round64(neg, BigOfDigits(body), 0, FALSE), 10000, 2)

\* sats - y * satsPerBTC.  The Go compiler may fuse the product and the
\* subtraction into one operation with one rounding (it does on arm64,
\* ppc64, riscv64 and s390x), or round the product first.
MulSub64(sats, y, fused) ==
  Sub64(sats, IF fused THEN Times1e8(y) ELSE MulBy1e8(y))

\* sats := float64(p.AmountMillisats) / msatsPerSat
Sats64(amount) == DivBy(Float64OfInt(amount), 1000, 1)

\* The amount field amt with diff = sats - v*satsPerBTC, or with
\* diff = sats - (-v*satsPerBTC) if negated, v being amt parsed back.
WithDiff64(sats, amt, negated, fused) ==
  [amt  |-> amt,
   diff |-> MulSub64(sats,
                     IF negated THEN Neg64(ParseFloat64(amt))
                     ELSE ParseFloat64(amt),
                     fused)]

\* Mutant of Sent64: the signed amount is formatted, not its absolute
\* value.
Sent64SignedOf(sats, fused) ==
  WithDiff64(sats, FormatBTC64(sats), TRUE, fused)

Sent64Signed(amount, fused) == Sent64SignedOf(Sats64(amount), fused)

\* The amount field and the residual of the cases of ToKoinlyRecord that
\* format the signed amount ...
Received64Of(sats, fused) ==
  WithDiff64(sats, FormatBTC64(sats), FALSE, fused)

Received64(amount, fused) == Received64Of(Sats64(amount), fused)

\* ... and of those that format the absolute amount.
Sent64Of(sats, fused) ==
  WithDiff64(sats, FormatBTC64(Abs64(sats)), TRUE, fused)

Sent64(amount, fused) == Sent64Of(Sats64(amount), fused)

\* ToKoinlyRecord in binary64: the populated amount field and diff for a
\* kind and the amount in millisatoshi, written in decimal.
ToKoinlyRecord64(kind, amount, fused) ==
  CASE kind \in {"lightning_received", "swap_in", "legacy_swap_in",
                 "channel_open", "legacy_pay_to_open"} ->
         Received64(amount, fused)
    [] kind \in {"lightning_sent", "swap_out", "channel_close"} ->
         Sent64(amount, fused)
    [] OTHER -> [amt |-> "", diff |-> Zero64(FALSE)]

(***************************************************************************)
(* time.Parse(PhoenixDateFormat, value), PhoenixDateFormat =               *)
(* "2006-01-02T15:04:05.999Z": a 4-digit year, 2-digit month and day, "T", *)
(* an hour of one or two digits, 2-digit minute and second, an optional    *)
(* fractional second of any number of digits, the literal "Z", and nothing *)
(* after it; the fields are range-checked, the day against the month.      *)
(***************************************************************************)
IsLeap(y) == y % 4 = 0 /\ (y % 100 # 0 \/ y % 400 = 0)

daysIn(mo, y) ==
  IF mo = 2 THEN (IF IsLeap(y) THEN 29 ELSE 28)
  ELSE IF mo \in {4, 6, 9, 11} THEN 30 ELSE 31

\* The number of digits of the fractional second that starts at position p
\* (p is the position of the separator).
RECURSIVE FracDigits(_, _)
FracDigits(s, p) ==
  IF p + 1 <= Len(s) /\ IsDigit(Char(s, p + 1)) THEN 1 + FracDigits(s, p + 1)
  ELSE 0

NoTime == [ok |-> FALSE, year |-> 0, month |-> 0, day |-> 0,
           hour |-> 0, min |-> 0, sec |-> 0, nsec |-> 0]

TimeParse(value) ==
  LET Two(p) == Sub(value, p, p + 1)
      dateOK == /\ Len(value) >= 11
                /\ AllDigits(Sub(value, 1, 4))
                /\ Char(value, 5) = "-" /\ AllDigits(Two(6))
                /\ Char(value, 8) = "-" /\ AllDigits(Two(9))
                /\ Char(value, 11) = "T"
      hlen   == IF IsDigit(Char(value, 12)) /\ IsDigit(Char(value, 13))
                THEN 2 ELSE 1
      c      == 12 + hlen            \* position of the ":" after the hour
      clockOK == /\ Len(value) >= c + 5
                 /\ AllDigits(Sub(value, 12, c - 1))
                 /\ Char(value, c) = ":" /\ AllDigits(Two(c + 1))
                 /\ Char(value, c + 3) = ":" /\ AllDigits(Two(c + 4))
      f      == c + 6                \* position after the seconds
      nfrac  == IF Char(value, f) \in {".", ","} THEN FracDigits(value, f)
                ELSE 0
      z      == IF nfrac > 0 THEN f + 1 + nfrac ELSE f
      tailOK == Len(value) = z /\ Char(value, z) = "Z"
      year   == DecVal(Sub(value, 1, 4))
      month  == DecVal(Two(6))
      day    == DecVal(Two(9))
      hour   == DecVal(Sub(value, 12, c - 1))
      min    == DecVal(Two(c + 1))
      sec    == DecVal(Two(c + 4))
      digs   == Sub(value, f + 1, f + nfrac)
      nsec   == DecVal(RightPad(Sub(digs, 1, 9), 9))
  IN  IF ~(dateOK /\ clockOK /\ tailOK) THEN NoTime
      ELSE IF \/ month < 1 \/ month > 12
              \/ hour >= 24 \/ min >= 60 \/ sec >= 60
              \/ day < 1 \/ day > daysIn(month, year) THEN NoTime
      ELSE [ok |-> TRUE, year |-> year, month |-> month, day |-> day,
            hour |-> hour, min |-> min, sec |-> sec, nsec |-> nsec]

\* t.Format(KoinlyDateFormat), KoinlyDateFormat = "2006-01-02 15:04:05 Z".
KoinlyDateFormat(t) ==
  Pad(t.year, 4) \o "-" \o Pad(t.month, 2) \o "-" \o Pad(t.day, 2) \o " "
    \o Pad(t.hour, 2) \o ":" \o Pad(t.min, 2) \o ":" \o Pad(t.sec, 2) \o " Z"

(***************************************************************************)
(* Parser                                                                  *)
(***************************************************************************)
\* Mutant of ParseIntField: the separators are not removed.
ParseIntFieldKeepCommas(val) ==
  LET r == ParseInt(val)
  IN  IF ~r.ok THEN 0 ELSE r.v

\* ParseIntField(val, name): the integer value, 0 when ParseInt fails.
ParseIntField(val) ==
  LET r == ParseInt(ReplaceAllCommas(val))
  IN  IF ~r.ok THEN 0 ELSE r.v

NoRecord == [Timestamp |-> NoTime, Type |-> "", AmountMillisats |-> 0,
             MiningFeeSat |-> 0, ServiceFeeMsat |-> 0,
             TransactionID |-> "", Description |-> ""]

\* Mutant of ParsePhoenixRecord: the external id is read from the
\* payment_hash column, one to the left of tx_id.
ParsePhoenixRecordHashAsId(record) ==
  LET timestamp == TimeParse(record[1])
  IN  IF ~timestamp.ok THEN [st |-> "err", rec |-> NoRecord]
      ELSE IF Len(record) < 14 THEN [st |-> "panic", rec |-> NoRecord]
      ELSE [st |-> "ok",
            rec |-> [Timestamp       |-> timestamp,
                     Type            |-> record[3],
                     AmountMillisats |-> ParseIntField(record[4]),
                     MiningFeeSat    |-> ParseIntField(record[7]),
                     ServiceFeeMsat  |-> ParseIntField(record[9]),
                     TransactionID   |-> record[11],
                     Description     |-> record[14]]]

\* ParsePhoenixRecord(record): st is "ok" (a record), "err" (the error
\* returned for an unparseable timestamp) or "panic" (an index of the row
\* that is out of range).  The timestamp is parsed, and its error returned,
\* before any other field is read.
ParsePhoenixRecord(record) ==
  LET timestamp == TimeParse(record[1])
  IN  IF ~timestamp.ok THEN [st |-> "err", rec |-> NoRecord]
      ELSE IF Len(record) < 14 THEN [st |-> "panic", rec |-> NoRecord]
      ELSE [st |-> "ok",
            rec |-> [Timestamp       |-> timestamp,
                     Type            |-> record[3],
                     AmountMillisats |-> ParseIntField(record[4]),
                     MiningFeeSat    |-> ParseIntField(record[7]),
                     ServiceFeeMsat  |-> ParseIntField(record[9]),
                     TransactionID   |-> record[12],
                     Description     |-> record[14]]]

(***************************************************************************)
(* Mapper                                                                  *)
(***************************************************************************)
\* Mutant of BaseRecord: the net-worth currency is filled in.
BaseRecordNetWorthCurrency(p) ==
  [Date |-> KoinlyDateFormat(p.Timestamp),
   SentAmount |-> "", SentCurrency |-> "",
   ReceivedAmount |-> "", ReceivedCurrency |-> "",
   FeeAmount |-> "", FeeCurrency |-> "",
   NetWorthAmount |-> "", NetWorthCurrency |-> "USD",
   Label |-> "", Description |-> p.Description, TxHash |-> p.TransactionID]

\* The KoinlyRecord ToKoinlyRecord starts from: metadata only.
BaseRecord(p) ==
  [Date |-> KoinlyDateFormat(p.Timestamp),
   SentAmount |-> "", SentCurrency |-> "",
   ReceivedAmount |-> "", ReceivedCurrency |-> "",
   FeeAmount |-> "", FeeCurrency |-> "",
   NetWorthAmount |-> "", NetWorthCurrency |-> "",
   Label |-> "", Description |-> p.Description, TxHash |-> p.TransactionID]

\* Mutant of Received: the service fee is taken off the amount.
ReceivedNetOfFee(p, label) ==
  LET sats == p.AmountMillisats - p.ServiceFeeMsat
      amt  == FormatBTC(sats)
  IN  [k |-> [BaseRecord(p) EXCEPT !.ReceivedAmount = amt,
                                   !.ReceivedCurrency = "BTC",
                                   !.Label = label],
       diff |-> sats - ParseFloat(amt) * msatsPerSat]

\* The cases that format the signed amount into the received field:
\* diff = sats - v*satsPerBTC.
Received(p, label) ==
  LET sats == p.AmountMillisats
      amt  == FormatBTC(sats)
  IN  [k |-> [BaseRecord(p) EXCEPT !.ReceivedAmount = amt,
                                   !.ReceivedCurrency = "BTC",
                                   !.Label = label],
       diff |-> sats - ParseFloat(amt) * msatsPerSat]

\* Mutant of Sent: the signed amount is formatted, not its absolute value.
SentSigned(p, label) ==
  LET sats == p.AmountMillisats
      amt  == FormatBTC(sats)
  IN  [k |-> [BaseRecord(p) EXCEPT !.SentAmount = amt,
                                   !.SentCurrency = "BTC",
                                   !.Label = label],
       diff |-> sats - (0 - ParseFloat(amt) * msatsPerSat)]

\* The cases that format the absolute amount into the sent field:
\* diff = sats - (-v*satsPerBTC).
Sent(p, label) ==
  LET sats == p.AmountMillisats
      amt  == FormatBTC(Abs(sats))
  IN  [k |-> [BaseRecord(p) EXCEPT !.SentAmount = amt,
                                   !.SentCurrency = "BTC",
                                   !.Label = label],
       diff |-> sats - (0 - ParseFloat(amt) * msatsPerSat)]

\* Mutant of Fee: the amount is booked as sent and as fee.
FeeAlsoSent(p, label) ==
  LET sats == p.AmountMillisats
      amt  == FormatBTC(Abs(sats))
  IN  [k |-> [BaseRecord(p) EXCEPT !.SentAmount = amt, !.SentCurrency = "BTC",
                                   !.FeeAmount = amt,
                                   !.FeeCurrency = "BTC",
                                   !.Label = label],
       diff |-> sats - (0 - ParseFloat(amt) * msatsPerSat)]

\* Mutant of Fee: the fee amount is set without its currency.
FeeWithoutCurrency(p, label) ==
  LET sats == p.AmountMillisats
      amt  == FormatBTC(Abs(sats))
  IN  [k |-> [BaseRecord(p) EXCEPT !.FeeAmount = amt,
                                   !.Label = label],
       diff |-> sats - (0 - ParseFloat(amt) * msatsPerSat)]

\* channel_close: the absolute amount into the fee field.
Fee(p, label) ==
  LET sats == p.AmountMillisats
      amt  == FormatBTC(Abs(sats))
  IN  [k |-> [BaseRecord(p) EXCEPT !.SentAmount = "", !.SentCurrency = "",
                                   !.ReceivedAmount = "",
                                   !.ReceivedCurrency = "",
                                   !.FeeAmount = amt,
                                   !.FeeCurrency = "BTC",
                                   !.Label = label],
       diff |-> sats - (0 - ParseFloat(amt) * msatsPerSat)]

\* Mutant of ToKoinlyRecord: swap_out falls into the swap_in case.
ToKoinlyRecordSwapOutAsIn(p) ==
  CASE p.Type = "lightning_received" -> Received(p, "lightning")
    [] p.Type = "lightning_sent" -> Sent(p, "lightning")
    [] p.Type \in {"swap_in", "legacy_swap_in", "swap_out"} ->
         Received(p, "transfer")
    [] p.Type \in {"channel_open", "legacy_pay_to_open"} ->
         Received(p, "deposit")
    [] p.Type = "channel_close" -> Fee(p, "cost")
    [] OTHER -> [k |-> BaseRecord(p), diff |-> 0]

\* Mutant of ToKoinlyRecord: an unknown kind is mapped like a receipt.
ToKoinlyRecordDefaultReceived(p) ==
  CASE p.Type = "lightning_received" -> Received(p, "lightning")
    [] p.Type = "lightning_sent" -> Sent(p, "lightning")
    [] p.Type \in {"swap_in", "legacy_swap_in"} -> Received(p, "transfer")
    [] p.Type = "swap_out" -> Sent(p, "transfer")
    [] p.Type \in {"channel_open", "legacy_pay_to_open"} ->
         Received(p, "deposit")
    [] p.Type = "channel_close" -> Fee(p, "cost")
    [] OTHER -> Received(p, "")

\* ToKoinlyRecord(p) returning (k, diff); diff is in millisatoshi.
ToKoinlyRecord(p) ==
  CASE p.Type = "lightning_received" -> Received(p, "lightning")
    [] p.Type = "lightning_sent" -> Sent(p, "lightning")
    [] p.Type \in {"swap_in", "legacy_swap_in"} -> Received(p, "transfer")
    [] p.Type = "swap_out" -> Sent(p, "transfer")
    [] p.Type \in {"channel_open", "legacy_pay_to_open"} ->
         Received(p, "deposit")
    [] p.Type = "channel_close" -> Fee(p, "cost")
    [] OTHER -> [k |-> BaseRecord(p), diff |-> 0]

\* (k *KoinlyRecord) ToStringSlice()
ToStringSlice(k) ==
  <<k.Date, k.SentAmount, k.SentCurrency, k.ReceivedAmount,
    k.ReceivedCurrency, k.FeeAmount, k.FeeCurrency, k.NetWorthAmount,
    k.NetWorthCurrency, k.Label, k.Description, k.TxHash>>

(***************************************************************************)
(* Serializer: csv.Writer over a bufio.Writer                              *)
(***************************************************************************)
koinlyHeader ==
  <<"Date", "Sent Amount", "Sent Currency", "Received Amount",
    "Received Currency", "Fee Amount", "Fee Currency", "Net Worth Amount",
    "Net Worth Currency", "Label", "Description", "TxHash">>

\* Mutant of costRecord: the adjustment is booked as a sent amount.
costRecordAsSent(now, roundingSats) ==
  [Date |-> KoinlyDateFormat(now),
   SentAmount |-> FormatBTC(roundingSats * msatsPerSat),
   SentCurrency |-> "BTC",
   ReceivedAmount |-> "", ReceivedCurrency |-> "",
   FeeAmount |-> "", FeeCurrency |-> "",
   NetWorthAmount |-> "", NetWorthCurrency |-> "",
   Label |-> "cost",
   Description |-> "Adjustment for rounding differences",
   TxHash |-> ""]

\* Mutant of costRecord: the entry gets an id made of the current time.
costRecordStamped(now, roundingSats) ==
  [Date |-> KoinlyDateFormat(now),
   SentAmount |-> "", SentCurrency |-> "",
   ReceivedAmount |-> "", ReceivedCurrency |-> "",
   FeeAmount |-> FormatBTC(roundingSats * msatsPerSat),
   FeeCurrency |-> "BTC",
   NetWorthAmount |-> "", NetWorthCurrency |-> "",
   Label |-> "cost",
   Description |-> "Adjustment for rounding differences",
   TxHash |-> "adj-" \o KoinlyDateFormat(now)]

\* The correction entry of CreateKoinlyCSV, dated now.
costRecord(now, roundingSats) ==
  [Date |-> KoinlyDateFormat(now),
   SentAmount |-> "", SentCurrency |-> "",
   ReceivedAmount |-> "", ReceivedCurrency |-> "",
   FeeAmount |-> FormatBTC(roundingSats * msatsPerSat),
   FeeCurrency |-> "BTC",
   NetWorthAmount |-> "", NetWorthCurrency |-> "",
   Label |-> "cost",
   Description |-> "Adjustment for rounding differences",
   TxHash |-> ""]

\* int64(math.Round(math.Abs(roundingDiff))): halves round away from zero.
RoundingSats(diff) == (2 * Abs(diff) + msatsPerSat) \div (2 * msatsPerSat)

CountQuotes(field) == Cardinality({i \in 1..Len(field) : Char(field, i) = "\""})

\* csv.Writer.fieldNeedsQuotes
fieldNeedsQuotes(field) ==
  /\ field # ""
  /\ \/ field = "\\."
     \/ \E i \in 1..Len(field) : Char(field, i) \in {",", "\"", "\r", "\n"}
     \/ Head(field) \in {" ", "\t"}

\* The bytes csv.Writer.Write puts into the buffer for one field and one row.
FieldBytes(field) ==
  IF fieldNeedsQuotes(field) THEN Len(field) + CountQuotes(field) + 2
  ELSE Len(field)

RECURSIVE SumFieldBytes(_)
SumFieldBytes(row) ==
  IF Len(row) = 0 THEN 0 ELSE FieldBytes(Head(row)) + SumFieldBytes(Tail(row))

RowBytes(row) == SumFieldBytes(row) + (Len(row) - 1) + 1

\* bufio.Writer under csv.Writer: a write of n bytes into a buffer holding
\* nb bytes flushes the full buffer to the sink each time the next byte does
\* not fit; the sink accepts or rejects each flush, and a rejected flush
\* makes the write fail.  The outcomes of one csv.Writer.Write.
WriteOutcomes(nb, sk, n) ==
  LET total == nb + n
      k     == IF total <= BufSize THEN 0 ELSE (total - 1) \div BufSize
  IN  {[nbuf |-> total - k * BufSize, sunk |-> sk + k * BufSize,
        err |-> FALSE]}
      \cup {[nbuf |-> BufSize, sunk |-> sk + (j - 1) * BufSize,
             err |-> TRUE] : j \in 1..k}

(***************************************************************************)
(* Inputs: the rows csv.Reader yields, the header row first.               *)
(***************************************************************************)
Row(ts, kind, amount, miningFee, serviceFee, txid, memo) ==
  <<ts, "", kind, amount, "", "", miningFee, "", serviceFee, "", "", txid,
    "", memo>>

GoodTS == "2024-05-01T12:00:00.000Z"

ShortRow == <<GoodTS, "", "lightning_received">>

SampleRows ==
  { Row("2024-02-29T8:30:15Z", "lightning_sent", "-200,000,000", "0",
        "4,000", "tx2", "coffee, black"),
    Row(GoodTS, "channel_close", "-1,600", "150", "0", "tx3", ""),
    Row(GoodTS, "swap_in", "400", "n/a", "9223372036854775808", "tx4",
        "desc"),
    Row(GoodTS, "legacy_swap_in", "2,600", "0", "0", "tx5", "desc"),
    Row(GoodTS, "swap_out", "5000", "0", "0", "tx6", "desc"),
    Row(GoodTS, "foo_bar", "7000", "0", "0", "tx9", "unknown kind"),
    Row("2024-13-01 12:00", "lightning_received", "1000", "0", "0", "tx10",
        "desc") }

PhoenixHeader ==
  <<"date", "id", "type", "amount_msat", "amount_fiat", "fee_credit_msat",
    "mining_fee_sat", "mining_fee_fiat", "service_fee_msat",
    "service_fee_fiat", "payment_hash", "tx_id", "destination",
    "description">>

ShortHeader == <<"date", "id", "type">>


RECURSIVE SeqsUpTo(_, _)
SeqsUpTo(S, n) ==
  IF n = 0 THEN {<<>>}
  ELSE LET shorter == SeqsUpTo(S, n - 1)
       IN  shorter \cup {Append(q, e) : q \in shorter, e \in S}

\* A file without a header line: its first row is a data row.
HeaderlessRows ==
  { Row(GoodTS, "legacy_swap_in", "2,600", "0", "0", "tx5", "desc"),
    Row(GoodTS, "swap_out", "5000", "0", "0", "tx6", "desc") }

\* No row at all; the 14-column header and sample rows; a 3-column header
\* and rows of 3 or 14 columns; data rows only.
Inputs ==
  {<<>>}
    \cup {<<PhoenixHeader>> \o rows : rows \in SeqsUpTo(SampleRows, MaxRows)}
    \cup {<<ShortHeader>> \o rows :
             rows \in SeqsUpTo({ShortRow, PhoenixHeader}, MaxRows)}
    \cup {<<first>> \o rows :
             first \in HeaderlessRows,
             rows \in SeqsUpTo(HeaderlessRows, MaxRows - 1)}

\* The instants time.Now() may return.
Instants ==
  {[ok |-> TRUE, year |-> 2026, month |-> 1, day |-> 2, hour |-> 3,
    min |-> 4, sec |-> 5, nsec |-> 0],
   [ok |-> TRUE, year |-> 2026, month |-> 12, day |-> 31, hour |-> 23,
    min |-> 59, sec |-> 59, nsec |-> 999]}

(***************************************************************************)
(* State of one call Convert(r, w, addRoundingCost)                        *)
(***************************************************************************)
VARIABLES
  Verbose,         \* the package variable Verbose
  logs,            \* the lines printed through the log package, in order
  input,           \* the rows the csv.Reader will yield
  addCost,         \* addRoundingCost
  pc,              \* position of the call
  pos,             \* index of the next input row
  fieldsPerRecord, \* csv.Reader: the field count of the first record
  records,         \* ReadPhoenixCSV: records
  idx,             \* CreateKoinlyCSV: index of the next record to map
  roundingDiff,    \* CreateKoinlyCSV: roundingDiff, in millisatoshi
  out,             \* the rows csv.Writer.Write accepted, in order
  nbuf,            \* bytes held in the bufio buffer
  sunk,            \* bytes the sink w has accepted
  werr,            \* the sink has rejected a write (bufio's sticky error)
  ret,             \* what Convert returns: "none" while running
  cause,           \* why the run ended in an error or a panic
  arg,             \* the argument of a function applied on its own
  res              \* and its result

vars == <<Verbose, logs, input, addCost, pc, pos, fieldsPerRecord, records, idx,
          roundingDiff, out, nbuf, sunk, werr, ret, cause, arg, res>>

callVars == <<Verbose, logs, input, addCost, pc, pos, fieldsPerRecord, records, idx,
              roundingDiff, out, nbuf, sunk, werr, ret, cause>>

(***************************************************************************)
(* Diagnostics: the lines the functions print through the log package.     *)
(* A line is a tuple of strings: its fixed text and the values printed.    *)
(***************************************************************************)
\* LogVerbose(line): the line is printed only if Verbose is set.
LogVerbose(line) == IF Verbose THEN <<line>> ELSE <<>>

\* log.Printf(line)
LogPrintf(line) == <<line>>

\* What ParseIntField(val, name) prints.
ParseIntFieldLog(val, name) ==
  IF ~ParseInt(ReplaceAllCommas(val)).ok
  THEN LogVerbose(<<"Warning: failed to parse", name, val>>)
  ELSE <<>>

\* What ParsePhoenixRecord(record) prints: nothing when the timestamp fails
\* (the error is returned to the caller), else the warnings of the numeric
\* fields it reaches.
ParsePhoenixRecordLog(record) ==
  IF ~TimeParse(record[1]).ok \/ Len(record) < 4 THEN <<>>
  ELSE ParseIntFieldLog(record[4], "amount_msat")
         \o (IF Len(record) < 7 THEN <<>>
             ELSE ParseIntFieldLog(record[7], "mining_fee_sat")
                    \o (IF Len(record) < 9 THEN <<>>
                        ELSE ParseIntFieldLog(record[9], "service_fee_msat")))

\* What ReadPhoenixCSV prints for a row ParsePhoenixRecord returns an error
\* for.
SkipLog(record) == LogPrintf(<<"Error parsing record", record[1]>>)

\* What ToKoinlyRecord(p) prints.
ToKoinlyRecordLog(p) ==
  LET k == ToKoinlyRecord(p).k
  IN  LogVerbose(<<"Processing Phoenix Record", p.TransactionID>>)
        \o LogVerbose(<<"Calculated Sats", ToString(p.AmountMillisats)>>)
        \o (CASE p.Type \in {"lightning_received", "swap_in", "legacy_swap_in",
                              "channel_open", "legacy_pay_to_open"} ->
                   LogVerbose(<<"Type", p.Type, "ReceivedAmount",
                                k.ReceivedAmount>>)
               [] p.Type \in {"lightning_sent", "swap_out"} ->
                   LogVerbose(<<"Type", p.Type, "SentAmount", k.SentAmount>>)
               [] p.Type = "channel_close" ->
                   LogVerbose(<<"Type", p.Type, "FeeAmount", k.FeeAmount>>)
               [] OTHER ->
                   LogPrintf(<<"Unknown transaction type for Koinly conversion",
                               p.Type>>))

\* The state before Convert has read anything.
Start(first) ==
  /\ pc = first
  /\ pos = 1
  /\ fieldsPerRecord = 0
  /\ records = <<>>
  /\ idx = 1
  /\ roundingDiff = 0
  /\ out = <<>>
  /\ nbuf = 0
  /\ sunk = 0
  /\ werr = FALSE
  /\ ret = "none"
  /\ cause = "none"

Init ==
  /\ Verbose \in BOOLEAN
  /\ logs = <<>>
  /\ input \in Inputs
  /\ addCost \in BOOLEAN
  /\ Start("readHeader")
  /\ arg = <<>>
  /\ res = <<>>

readerVars == <<pos, fieldsPerRecord, records>>
writerVars == <<idx, roundingDiff, out, nbuf, sunk, werr>>

\* Convert returns the error of ReadPhoenixCSV, or panics in it.
Abort(r, why) ==
  /\ pc' = "done"
  /\ ret' = r
  /\ cause' = why

(***************************************************************************)
(* ReadPhoenixCSV                                                          *)
(***************************************************************************)
\* Mutant of ReadHeader: the first row is looked at but left to the loop,
\* which parses it like any other row.
ReadHeaderKeepRow ==
  /\ pc = "readHeader"
  /\ IF Len(input) = 0
     THEN Abort("error", "eof") /\ UNCHANGED readerVars
     ELSE /\ fieldsPerRecord' = Len(input[1])
          /\ pos' = 1
          /\ pc' = "readRows"
          /\ UNCHANGED <<records, ret, cause>>
  /\ UNCHANGED <<Verbose, logs, input, addCost, arg, res>>
  /\ UNCHANGED writerVars

\* reader.Read() of the header row: io.EOF on an empty input is returned as
\* the error.
ReadHeader ==
  /\ pc = "readHeader"
  /\ IF Len(input) = 0
     THEN Abort("error", "eof") /\ UNCHANGED readerVars
     ELSE /\ fieldsPerRecord' = Len(input[1])
          /\ pos' = 2
          /\ pc' = "readRows"
          /\ UNCHANGED <<records, ret, cause>>
  /\ UNCHANGED <<Verbose, logs, input, addCost, arg, res>>
  /\ UNCHANGED writerVars

\* reader.Read() fails on the input stream.
ReadFail ==
  /\ pc \in {"readHeader", "readRows"}
  /\ Abort("error", "io")
  /\ UNCHANGED <<Verbose, logs, input, addCost, arg, res>>
  /\ UNCHANGED readerVars
  /\ UNCHANGED writerVars

\* Mutant of ReadRow: a row that fails to parse ends the loop (break).
ReadRowBreak ==
  /\ pc = "readRows"
  /\ pos <= Len(input)
  /\ LET record == input[pos]
         parsed == ParsePhoenixRecord(record)
     IN  IF Len(record) # fieldsPerRecord
         THEN Abort("error", "fieldcount") /\ UNCHANGED <<readerVars, logs>>
         ELSE IF parsed.st = "panic"
         THEN /\ Abort("panic", "index")
              /\ logs' = logs \o ParsePhoenixRecordLog(record)
              /\ UNCHANGED readerVars
         ELSE /\ records' = IF parsed.st = "ok"
                            THEN Append(records, parsed.rec) ELSE records
              /\ pos' = IF parsed.st = "ok" THEN pos + 1 ELSE Len(input) + 1
              /\ logs' = logs \o (IF parsed.st = "ok"
                                    THEN ParsePhoenixRecordLog(record)
                                    ELSE SkipLog(record))
              /\ UNCHANGED <<pc, ret, cause, fieldsPerRecord>>
  /\ UNCHANGED <<Verbose, input, addCost, arg, res>>
  /\ UNCHANGED writerVars

\* One iteration of the loop on a data row.
ReadRow ==
  /\ pc = "readRows"
  /\ pos <= Len(input)
  /\ LET record == input[pos]
         parsed == ParsePhoenixRecord(record)
     IN  IF Len(record) # fieldsPerRecord
         THEN Abort("error", "fieldcount") /\ UNCHANGED <<readerVars, logs>>
         ELSE IF parsed.st = "panic"
         THEN /\ Abort("panic", "index")
              /\ logs' = logs \o ParsePhoenixRecordLog(record)
              /\ UNCHANGED readerVars
         ELSE /\ records' = IF parsed.st = "ok"
                            THEN Append(records, parsed.rec) ELSE records
              /\ pos' = pos + 1
              /\ logs' = logs \o (IF parsed.st = "ok"
                                    THEN ParsePhoenixRecordLog(record)
                                    ELSE SkipLog(record))
              /\ UNCHANGED <<pc, ret, cause, fieldsPerRecord>>
  /\ UNCHANGED <<Verbose, input, addCost, arg, res>>
  /\ UNCHANGED writerVars

\* reader.Read() returns io.EOF: ReadPhoenixCSV returns the records.
ReadEOF ==
  /\ pc = "readRows"
  /\ pos > Len(input)
  /\ pc' = "writeHeader"
  /\ UNCHANGED <<Verbose, logs, input, addCost, ret, cause, arg, res>>
  /\ UNCHANGED readerVars
  /\ UNCHANGED writerVars

(***************************************************************************)
(* CreateKoinlyCSV                                                         *)
(***************************************************************************)
\* writer.Write(row) and the "if err != nil { return err }" after it; on
\* success the call goes on at position next.
WriteRow(row, next) ==
  \E o \in WriteOutcomes(nbuf, sunk, RowBytes(row)) :
     /\ nbuf' = o.nbuf
     /\ sunk' = o.sunk
     /\ werr' = o.err
     /\ IF o.err
        THEN /\ out' = out
             /\ pc' = "flush"
             /\ ret' = "error"
             /\ cause' = "write"
        ELSE /\ out' = Append(out, row)
             /\ pc' = next
             /\ UNCHANGED <<ret, cause>>

WriteHeader ==
  /\ pc = "writeHeader"
  /\ WriteRow(koinlyHeader, "mapRows")
  /\ UNCHANGED <<Verbose, logs, input, addCost, idx, roundingDiff, arg, res>>
  /\ UNCHANGED readerVars

\* Mutant of MapRow: the records are taken from the last to the first.
MapRowReversed ==
  /\ pc = "mapRows"
  /\ idx <= Len(records)
  /\ LET m == ToKoinlyRecord(records[Len(records) + 1 - idx])
     IN  /\ roundingDiff' = roundingDiff + m.diff
         /\ logs' = logs \o ToKoinlyRecordLog(records[Len(records) + 1 - idx])
         /\ WriteRow(ToStringSlice(m.k), "mapRows")
  /\ idx' = idx + 1
  /\ UNCHANGED <<Verbose, input, addCost, arg, res>>
  /\ UNCHANGED readerVars

\* Mutant of MapRow: the residual is summed in verbose runs only.
MapRowVerboseDiff ==
  /\ pc = "mapRows"
  /\ idx <= Len(records)
  /\ LET m == ToKoinlyRecord(records[idx])
     IN  /\ roundingDiff' = IF Verbose THEN roundingDiff + m.diff
                            ELSE roundingDiff
         /\ logs' = logs \o ToKoinlyRecordLog(records[idx])
         /\ WriteRow(ToStringSlice(m.k), "mapRows")
  /\ idx' = idx + 1
  /\ UNCHANGED <<Verbose, input, addCost, arg, res>>
  /\ UNCHANGED readerVars

\* Mutant of MapRow: an entry without any amount (unknown kind) is not
\* written.
MapRowSkipUnknown ==
  /\ pc = "mapRows"
  /\ idx <= Len(records)
  /\ LET m == ToKoinlyRecord(records[idx])
     IN  /\ roundingDiff' = roundingDiff + m.diff
         /\ logs' = logs \o ToKoinlyRecordLog(records[idx])
         /\ IF m.k.Label = ""
            THEN UNCHANGED <<out, nbuf, sunk, werr, pc, ret, cause>>
            ELSE WriteRow(ToStringSlice(m.k), "mapRows")
  /\ idx' = idx + 1
  /\ UNCHANGED <<Verbose, input, addCost, arg, res>>
  /\ UNCHANGED readerVars

\* One iteration of the loop over records.
MapRow ==
  /\ pc = "mapRows"
  /\ idx <= Len(records)
  /\ LET m == ToKoinlyRecord(records[idx])
     IN  /\ roundingDiff' = roundingDiff + m.diff
         /\ logs' = logs \o ToKoinlyRecordLog(records[idx])
         /\ WriteRow(ToStringSlice(m.k), "mapRows")
  /\ idx' = idx + 1
  /\ UNCHANGED <<Verbose, input, addCost, arg, res>>
  /\ UNCHANGED readerVars

\* Mutant of CostDue: a rounded residual of zero is adjusted too.
CostDueAlways(diff) == addCost /\ RoundingSats(diff) >= 0

\* The adjustment is due: addCost and roundingSats > 0.
CostDue(diff) == addCost /\ RoundingSats(diff) > 0

\* After the loop: the optional correction entry, then "return nil".
Correction ==
  /\ pc = "mapRows"
  /\ idx > Len(records)
  /\ IF CostDue(roundingDiff)
     THEN \E now \in Instants :
            WriteRow(ToStringSlice(costRecord(now, RoundingSats(roundingDiff))),
                     "return")
     ELSE /\ pc' = "return"
          /\ UNCHANGED <<out, nbuf, sunk, werr, ret, cause>>
  /\ UNCHANGED <<Verbose, logs, input, addCost, idx, roundingDiff, arg, res>>
  /\ UNCHANGED readerVars

ReturnNil ==
  /\ pc = "return"
  /\ pc' = "flush"
  /\ ret' = "nil"
  /\ UNCHANGED <<Verbose, logs, input, addCost, cause, arg, res>>
  /\ UNCHANGED readerVars
  /\ UNCHANGED writerVars

\* The deferred writer.Flush(): nothing after a write error or on an empty
\* buffer; otherwise the buffer goes to the sink, which accepts or rejects
\* it.  Its error is not looked at: the value being returned stays.
Flush ==
  /\ pc = "flush"
  /\ pc' = "done"
  /\ IF werr \/ nbuf = 0
     THEN UNCHANGED <<nbuf, sunk, werr>>
     ELSE \E ok \in BOOLEAN :
            IF ok THEN /\ sunk' = sunk + nbuf
                       /\ nbuf' = 0
                       /\ werr' = FALSE
                  ELSE /\ werr' = TRUE
                       /\ UNCHANGED <<nbuf, sunk>>
  /\ UNCHANGED <<Verbose, logs, input, addCost, idx, roundingDiff, out, ret, cause, arg,
                 res>>
  /\ UNCHANGED readerVars

\* Convert: ReadPhoenixCSV, then CreateKoinlyCSV.
Next ==
  \/ ReadHeader
  \/ ReadFail
  \/ ReadRow
  \/ ReadEOF
  \/ WriteHeader
  \/ MapRow
  \/ Correction
  \/ ReturnNil
  \/ Flush

Spec == Init /\ [][Next]_vars

(***************************************************************************)
(* The mapper and the parser applied on their own, to arguments drawn from *)
(* sample sets.                                                            *)
(***************************************************************************)
\* Parsed timestamps, each with the date KoinlyDateFormat is to give.
TimeSamples ==
  { <<[ok |-> TRUE, year |-> 2024, month |-> 5, day |-> 1, hour |-> 12,
       min |-> 0, sec |-> 0, nsec |-> 0], "2024-05-01 12:00:00 Z">>,
    <<[ok |-> TRUE, year |-> 2024, month |-> 2, day |-> 29, hour |-> 8,
       min |-> 30, sec |-> 15, nsec |-> 250000000], "2024-02-29 08:30:15 Z">> }

KindSamples ==
  {"lightning_received", "lightning_sent", "swap_in", "legacy_swap_in",
   "swap_out", "channel_open", "legacy_pay_to_open", "channel_close",
   "foo_bar", "", "Lightning_Sent"}

AmountSamples ==
  {-200000000, -150000, -1600, -500, 0, 400, 1500, 1000000000}

MapInputs ==
  { [p |-> [Timestamp |-> t[1], Type |-> kind, AmountMillisats |-> a,
            MiningFeeSat |-> mf, ServiceFeeMsat |-> sf,
            TransactionID |-> id, Description |-> d],
     wantDate |-> t[2]] :
      t \in TimeSamples, kind \in KindSamples, a \in AmountSamples,
      mf \in {0, 150}, sf \in {0, 4000}, id \in {"", "tx1"},
      d \in {"", "desc"} }

MapInit ==
  /\ Verbose \in BOOLEAN
  /\ logs = <<>>
  /\ input = <<>>
  /\ addCost = FALSE
  /\ Start("map")
  /\ arg \in MapInputs
  /\ res = <<>>

\* k, diff := ToKoinlyRecord(p)
MapApply ==
  /\ pc = "map"
  /\ pc' = "mapped"
  /\ res' = ToKoinlyRecord(arg.p)
  /\ logs' = logs \o ToKoinlyRecordLog(arg.p)
  /\ UNCHANGED <<Verbose, input, addCost, ret, cause, arg>>
  /\ UNCHANGED readerVars
  /\ UNCHANGED writerVars

MapSpec == MapInit /\ [][MapApply]_vars

\* Numeric fields, each with the value Go's ParseIntField gives.
NumSamples ==
  { <<"0", 0>>, <<"1,500", 1500>>, <<"-200,000,000", -200000000>>,
    <<"123456789", 123456789>>, <<"+7", 7>>, <<"1,2,3", 123>>,
    <<"", 0>>, <<"n/a", 0>>, <<"12abc", 0>>, <<"1.5", 0>>, <<" 5", 0>>, <<"-", 0>>,
    <<"9223372036854775808", 0>>, <<"-9,223,372,036,854,775,809", 0>> }

FeeSamples ==
  {e \in NumSamples : e[1] \in {"0", "1,500", "n/a", "", "12abc",
                                "9223372036854775808"}}

\* Timestamp fields, each with whether Go's time.Parse accepts it.
TsSamples ==
  { <<"2024-05-01T12:00:00.000Z", TRUE>>, <<"2024-02-29T8:30:15Z", TRUE>>,
    <<"2024-05-01T12:00:00.123456Z", TRUE>>,
    <<"2024-05-01 12:00:00", FALSE>>, <<"2023-02-29T12:00:00.000Z", FALSE>>,
    <<"", FALSE>>, <<"2024-05-01T12:00:00.000+01:00", FALSE>> }

ParseInputs ==
  { <<ts[1], u, kind, a[1], u, u, mf[1], u, sf[1], u, u, id, u, d>> :
      ts \in TsSamples, kind \in {"lightning_received", "foo_bar"},
      a \in NumSamples, mf \in FeeSamples, sf \in FeeSamples,
      id \in {"tx1"}, d \in {"", "a \"b\", c"}, u \in {"", "7"} }

ParseInit ==
  /\ Verbose \in BOOLEAN
  /\ logs = <<>>
  /\ input = <<>>
  /\ addCost = FALSE
  /\ Start("parse")
  /\ arg \in ParseInputs
  /\ res = <<>>

\* phoenixRecord, err := ParsePhoenixRecord(record)
ParseApply ==
  /\ pc = "parse"
  /\ pc' = "parsed"
  /\ res' = ParsePhoenixRecord(arg)
  /\ logs' = logs \o ParsePhoenixRecordLog(arg)
  /\ UNCHANGED <<Verbose, input, addCost, ret, cause, arg>>
  /\ UNCHANGED readerVars
  /\ UNCHANGED writerVars

ParseSpec == ParseInit /\ [][ParseApply]_vars

(***************************************************************************)
(* The mapper's arithmetic in binary64, applied to amounts up to the whole *)
(* range of a wallet.                                                      *)
(***************************************************************************)
\* Amounts in millisatoshi: whole satoshis from 1 sat to 21 million BTC,
\* and amounts with a fraction of a satoshi.
Amount64Samples ==
  {"0", "400", "1500", "1600", "195312500",
   "1000", "3000", "7000", "150000", "200000000", "1000000000",
   "2000000000", "4194303000", "12500002000", "264979454000",
   "931189718000", "2100000000000000000"}

Map64Inputs ==
  { [Type |-> kind, Amount |-> a, fused |-> f] :
      kind \in KindSamples \ {"", "Lightning_Sent"},
      a \in Amount64Samples \cup {"-" \o b : b \in Amount64Samples \ {"0"}},
      f \in BOOLEAN }

Map64Init ==
  /\ Verbose \in BOOLEAN
  /\ logs = <<>>
  /\ input = <<>>
  /\ addCost = FALSE
  /\ Start("map64")
  /\ arg \in Map64Inputs
  /\ res = <<>>

\* k, diff := ToKoinlyRecord(p), in binary64.
Map64Apply ==
  /\ pc = "map64"
  /\ pc' = "mapped64"
  /\ res' = ToKoinlyRecord64(arg.Type, arg.Amount, arg.fused)
  /\ logs' = logs
        \o LogVerbose(<<"Processing Phoenix Record", "">>)
        \o LogVerbose(<<"Calculated Sats", arg.Amount>>)
        \o (IF res'.amt # ""
            THEN LogVerbose(<<"Type", arg.Type, "Amount", res'.amt>>)
            ELSE LogPrintf(<<"Unknown transaction type for Koinly conversion",
                             arg.Type>>))
  /\ UNCHANGED <<Verbose, input, addCost, ret, cause, arg>>
  /\ UNCHANGED readerVars
  /\ UNCHANGED writerVars

Map64Spec == Map64Init /\ [][Map64Apply]_vars

(***************************************************************************)
(* Properties                                                              *)
(***************************************************************************)
\* The lookup table of the mapper: kind -> <<amount field, label>>.
LookupTable ==
  ("lightning_received" :> <<"received", "lightning">>)
    @@ ("lightning_sent" :> <<"sent", "lightning">>)
    @@ ("swap_in" :> <<"received", "transfer">>)
    @@ ("legacy_swap_in" :> <<"received", "transfer">>)
    @@ ("swap_out" :> <<"sent", "transfer">>)
    @@ ("channel_open" :> <<"received", "deposit">>)
    @@ ("legacy_pay_to_open" :> <<"received", "deposit">>)
    @@ ("channel_close" :> <<"fee", "cost">>)

RecognisedKinds == DOMAIN LookupTable

\* The amount fields of an entry that are populated, and a field's currency.
PopulatedFields(k) ==
  {f \in {"sent", "received", "fee"} :
     (CASE f = "sent" -> k.SentAmount
        [] f = "received" -> k.ReceivedAmount
        [] f = "fee" -> k.FeeAmount) # ""}

CurrencyOf(k, f) ==
  CASE f = "sent" -> k.SentCurrency
    [] f = "received" -> k.ReceivedCurrency
    [] f = "fee" -> k.FeeCurrency

\* C1: for a transaction of a recognised kind, ToKoinlyRecord populates
\* exactly the amount field the lookup table gives for the kind, with the
\* currency "BTC", and sets the label the table gives, whatever the amount
\* and the other fields of the transaction.
C1_TableFollowed ==
  (pc = "mapped" /\ arg.p.Type \in RecognisedKinds) =>
     LET e == LookupTable[arg.p.Type]
     IN  /\ PopulatedFields(res.k) = {e[1]}
         /\ CurrencyOf(res.k, e[1]) = "BTC"
         /\ res.k.Label = e[2]

\* A swap_out of a negative amount has been mapped into the sent field.
C1_Witness ==
  /\ pc = "mapped"
  /\ arg.p.Type = "swap_out"
  /\ arg.p.AmountMillisats = -1600
  /\ res.k.SentAmount = "0.00000002"
  /\ res.k.Label = "transfer"

\* C2: for a transaction of an unrecognised kind, ToKoinlyRecord returns an
\* entry whose sent, received and fee amounts and currencies and label are
\* empty, whose date, external id and memo are those of the transaction,
\* and a residual of exactly 0.
C2_UnknownKindMetadataOnly ==
  (pc = "mapped" /\ arg.p.Type \notin RecognisedKinds) =>
     /\ res.k.SentAmount = "" /\ res.k.SentCurrency = ""
     /\ res.k.ReceivedAmount = "" /\ res.k.ReceivedCurrency = ""
     /\ res.k.FeeAmount = "" /\ res.k.FeeCurrency = ""
     /\ res.k.Label = ""
     /\ res.k.Date = arg.wantDate
     /\ res.k.TxHash = arg.p.TransactionID
     /\ res.k.Description = arg.p.Description
     /\ res.diff = 0

\* An unknown kind with a non-zero amount and non-empty metadata was mapped.
C2_Witness ==
  /\ pc = "mapped"
  /\ arg.p.Type = "foo_bar"
  /\ arg.p.AmountMillisats = 1500
  /\ res.k.TxHash = "tx1"
  /\ res.k.Description = "desc"
  /\ res.k.Date = "2024-02-29 08:30:15 Z"

\* The value Go gives a numeric sample field, and whether Go accepts a
\* sample timestamp.
WantInt(field) == (CHOOSE e \in NumSamples : e[1] = field)[2]
WantTs(field) == (CHOOSE e \in TsSamples : e[1] = field)[2]

\* C4: for a row with a valid timestamp ParsePhoenixRecord returns a
\* record, and each of amount, mining fee and service fee is the integer
\* value of its field with the separators removed, or 0 when that is not a
\* valid 64-bit integer, independently of the two other fields.
C4_NumericFieldsDefaultToZero ==
  (pc = "parsed" /\ WantTs(arg[1])) =>
     /\ res.st = "ok"
     /\ res.rec.AmountMillisats = WantInt(arg[4])
     /\ res.rec.MiningFeeSat = WantInt(arg[7])
     /\ res.rec.ServiceFeeMsat = WantInt(arg[9])

\* A row whose amount is out of the int64 range and whose service fee is
\* not a number was parsed: both are 0 and the mining fee kept its value.
C4_Witness ==
  /\ pc = "parsed"
  /\ arg[4] = "9223372036854775808" /\ arg[7] = "1,500" /\ arg[9] = "12abc"
  /\ res.st = "ok"
  /\ res.rec.AmountMillisats = 0
  /\ res.rec.MiningFeeSat = 1500
  /\ res.rec.ServiceFeeMsat = 0

(***************************************************************************)
(* Properties of a whole run                                               *)
(***************************************************************************)
\* The sample timestamps Go's time.Parse accepts.
ValidSampleTS == {GoodTS, "2024-02-29T8:30:15Z"}

HasValidTs(row) == row[1] \in ValidSampleTS

\* The data rows of the input that are to be parsed, in input order.
ParseableRows == SelectSeq(SubSeq(input, 2, Len(input)), HasValidTs)

\* CreateKoinlyCSV has written every row without an error.
AllWritten == pc = "return" \/ (pc \in {"flush", "done"} /\ ret = "nil")

\* C3: a data row whose timestamp does not parse is skipped by a step that
\* neither ends nor aborts the run and leaves the parsed records alone; its
\* row never reaches the output; and in a run that wrote its output, the
\* mapped rows are those of the data rows with a parseable timestamp, all
\* of them, in input order.
C3_SkipDoesNotCascade ==
  /\ [](\A i \in 1..Len(out) : out[i][12] # "tx10")
  /\ [](AllWritten =>
          /\ Len(records) = Len(ParseableRows)
          /\ \A i \in 1..Len(records) :
               /\ out[i + 1][12] = ParseableRows[i][12]
               /\ out[i + 1][11] = ParseableRows[i][14])
  /\ [][(/\ pc = "readRows"
         /\ pos <= Len(input)
         /\ Len(input[pos]) = fieldsPerRecord
         /\ ~HasValidTs(input[pos])
         /\ cause' # "io")
        => (/\ pc' = "readRows"
            /\ pos' = pos + 1
            /\ records' = records
            /\ ret' = "none"
            /\ cause' = "none")]_vars

\* A run over a good row, a row with a bad timestamp and another good row
\* has ended in success with the two good rows in the output.
C3_Witness ==
  /\ pc = "done" /\ ret = "nil"
  /\ Len(input) = 4
  /\ HasValidTs(input[2]) /\ ~HasValidTs(input[3]) /\ HasValidTs(input[4])
  /\ Len(out) >= 3
  /\ out[2][12] = input[2][12]
  /\ out[3][12] = input[4][12]

\* The value of an amount column in satoshi (0 when empty), and the signed
\* balance of output rows: received - sent - fee.
AmountOf(field) == IF field = "" THEN 0 ELSE ParseFloat(field)

RECURSIVE Balance(_)
Balance(rows) ==
  IF Len(rows) = 0 THEN 0
  ELSE AmountOf(Head(rows)[4]) - AmountOf(Head(rows)[2])
         - AmountOf(Head(rows)[6]) + Balance(Tail(rows))

\* The net balance of the input in millisatoshi: the amounts of the parsed
\* rows of a recognised kind.
RECURSIVE NetMillisats(_)
NetMillisats(recs) ==
  IF Len(recs) = 0 THEN 0
  ELSE (IF Head(recs).Type \in RecognisedKinds
        THEN Head(recs).AmountMillisats ELSE 0) + NetMillisats(Tail(recs))

\* The mapped rows of the output (without the header and the correction).
MappedRows ==
  SubSeq(out, 2, IF Len(out) > 1 + Len(records) THEN 1 + Len(records)
                 ELSE Len(out))

\* Emitted balance minus input balance, in millisatoshi.
BalanceError(rows) == Balance(rows) * msatsPerSat - NetMillisats(records)

\* C5 as stated: with the adjustment disabled the balance of the emitted
\* entries equals the net balance of the input within 1e-8 BTC (1000
\* millisatoshi), for any rows and any amounts.
C5_BalanceWithinOneSat ==
  (pc = "done" /\ ret = "nil" /\ ~addCost) =>
     Abs(BalanceError(Tail(out))) <= msatsPerSat

SentOrFeeKinds == {"lightning_sent", "swap_out", "channel_close"}

\* The parsed rows of a recognised kind whose amount is not a whole satoshi.
FractionalRows ==
  {i \in 1..Len(records) :
     /\ records[i].Type \in RecognisedKinds
     /\ records[i].AmountMillisats % msatsPerSat # 0}

\* C5 amended: with the adjustment disabled, and no sent or fee row with a
\* positive amount, the balance of the emitted entries differs from the net
\* balance of the input by at most half a satoshi for each row whose amount
\* is not a whole number of satoshis (and not at all without such a row).
C5_BalanceWithinHalfSatPerRow ==
  (/\ pc = "done" /\ ret = "nil" /\ ~addCost
   /\ \A i \in 1..Len(records) :
        records[i].Type \in SentOrFeeKinds =>
          records[i].AmountMillisats <= 0) =>
     2 * Abs(BalanceError(Tail(out)))
        <= msatsPerSat * Cardinality(FractionalRows)

\* A run without adjustment over rows of fractional amounts has ended with
\* an emitted balance that is off the input balance.
C5_Witness ==
  /\ pc = "done" /\ ret = "nil" /\ ~addCost
  /\ \A i \in 1..Len(records) :
       records[i].Type \in SentOrFeeKinds => records[i].AmountMillisats <= 0
  /\ Cardinality(FractionalRows) >= 2
  /\ BalanceError(Tail(out)) # 0

\* The sum of the residuals of the mapped rows, in millisatoshi: what the
\* input holds and the mapped rows do not show.
ResidualSum == 0 - BalanceError(MappedRows)

\* The absolute residual sum rounded to whole satoshis, halves upwards.
RoundedResidual == (2 * Abs(ResidualSum) + msatsPerSat) \div (2 * msatsPerSat)

\* C6: no correction entry is in the output while records are being
\* mapped; once every record is mapped the output holds the header, one row
\* per record and one correction entry if addCost is set and the rounded
\* absolute residual sum is greater than zero, and no correction entry
\* otherwise.
C6_CorrectionIffDue ==
  /\ pc = "mapRows" => Len(out) = idx
  /\ AllWritten =>
       Len(out) = 1 + Len(records)
                    + (IF addCost /\ RoundedResidual > 0 THEN 1 ELSE 0)

\* A run with addCost has written a correction entry after two mapped rows.
C6_Witness ==
  /\ pc = "done" /\ ret = "nil" /\ addCost
  /\ Len(records) = 2
  /\ Len(out) = 4
  /\ RoundedResidual = 1

\* The dates of the instants time.Now() may return.
NowDates == {"2026-01-02 03:04:05 Z", "2026-12-31 23:59:59 Z"}

HasCorrection == AllWritten /\ Len(out) = 2 + Len(records)

\* C7: the correction entry has the rounded absolute residual sum, as BTC
\* with 8 decimals, as its fee amount, "BTC" as fee currency, the label
\* "cost", the memo "Adjustment for rounding differences", the current UTC
\* instant as date, and every other column empty.
C7_CorrectionEntryFields ==
  HasCorrection =>
    LET c == out[Len(out)]
    IN  /\ c[1] \in NowDates
        /\ c[2] = "" /\ c[3] = "" /\ c[4] = "" /\ c[5] = ""
        /\ Len(c[6]) - IndexOfDot(c[6]) = 8
        /\ IsDigit(Head(c[6]))
        /\ ParseFloat(c[6]) = RoundedResidual
        /\ c[7] = "BTC"
        /\ c[8] = "" /\ c[9] = ""
        /\ c[10] = "cost"
        /\ c[11] = "Adjustment for rounding differences"
        /\ c[12] = ""

\* A correction entry of 10 satoshis has been written.
C7_Witness ==
  /\ HasCorrection
  /\ pc = "done"
  /\ out[Len(out)][6] = "0.00000010"

\* The columns of an entry in the order of the output schema.
Columns(k) ==
  <<k.Date, k.SentAmount, k.SentCurrency, k.ReceivedAmount,
    k.ReceivedCurrency, k.FeeAmount, k.FeeCurrency, k.NetWorthAmount,
    k.NetWorthCurrency, k.Label, k.Description, k.TxHash>>

\* C8: the first row written is the 12-column header; the rows after it
\* are the entries of the records, one each and in the order of the input
\* rows they come from; a correction entry is written only after all of
\* them and nothing is written after it.
C8_HeaderRowsCorrection ==
  /\ Len(out) >= 1 =>
       out[1] = <<"Date", "Sent Amount", "Sent Currency", "Received Amount",
                  "Received Currency", "Fee Amount", "Fee Currency",
                  "Net Worth Amount", "Net Worth Currency", "Label",
                  "Description", "TxHash">>
  /\ Len(out) <= 2 + Len(records)
  /\ \A i \in 2..Len(out) :
       /\ Len(out[i]) = 12
       /\ i <= 1 + Len(records) =>
            /\ out[i] = Columns(ToKoinlyRecord(records[i - 1]).k)
            /\ out[i][12] = ParseableRows[i - 1][12]
  /\ pc \in {"readHeader", "readRows", "writeHeader"} => Len(out) = 0
  /\ AllWritten => Len(out) >= 1 + Len(records)

\* A run has written the header, three mapped rows and the correction.
C8_Witness ==
  /\ pc = "done" /\ ret = "nil"
  /\ Len(records) = 3
  /\ Len(out) = 5
  /\ out[2][12] # out[3][12]

\* C9 as stated: when the sink has rejected a write, at whatever point of
\* the run, Convert returns an error.
C9_SinkFailureIsReported ==
  (pc = "done" /\ werr) => ret = "error"

\* C10 as stated: Convert returns an error, or crashes, only on a fatal
\* condition: an unreadable input, a missing header or an unwritable sink.
C10_OnlyFatalAborts ==
  (pc = "done" /\ ret \in {"error", "panic"}) =>
     cause \in {"eof", "io", "write"}

\* C11 as stated: when Convert returns an error the sink has received
\* nothing, not even the header; and nothing is written, to the buffer or
\* to the sink, before every input row has been read and parsed.
C11_NoOutputOnError ==
  /\ (pc = "done" /\ ret = "error") => sunk = 0
  /\ pc \in {"readHeader", "readRows"} => (sunk = 0 /\ nbuf = 0 /\ out = <<>>)

\* C12: in every entry ToKoinlyRecord returns at most one of the sent,
\* received and fee amounts is non-empty, and all three are empty exactly
\* when the kind of the transaction is not a recognised one.
C12_AtMostOneAmount ==
  pc = "mapped" =>
     /\ Cardinality(PopulatedFields(res.k)) <= 1
     /\ PopulatedFields(res.k) = {} <=> arg.p.Type \notin RecognisedKinds

\* A channel_close has been mapped: the fee is the only amount.
C12_Witness ==
  /\ pc = "mapped"
  /\ arg.p.Type = "channel_close"
  /\ arg.p.AmountMillisats = -1600
  /\ res.k.FeeAmount = "0.00000002"
  /\ res.k.SentAmount = "" /\ res.k.ReceivedAmount = ""

\* The records, the mapped rows and the residual sum that the data rows of
\* an input determine.
RECURSIVE RecordsOf(_)
RecordsOf(rows) ==
  IF Len(rows) = 0 THEN <<>>
  ELSE LET parsed == ParsePhoenixRecord(Head(rows))
       IN  (IF parsed.st = "ok" THEN <<parsed.rec>> ELSE <<>>)
             \o RecordsOf(Tail(rows))

RECURSIVE RowsOf(_)
RowsOf(recs) ==
  IF Len(recs) = 0 THEN <<>>
  ELSE <<ToStringSlice(ToKoinlyRecord(Head(recs)).k)>> \o RowsOf(Tail(recs))

RECURSIVE DiffOf(_)
DiffOf(recs) ==
  IF Len(recs) = 0 THEN 0
  ELSE ToKoinlyRecord(Head(recs)).diff + DiffOf(Tail(recs))

\* The output of the invocation on the input and addCost of this run that
\* takes place at the instant now.
OutputAt(now) ==
  LET recs == RecordsOf(Tail(input))
  IN  <<koinlyHeader>> \o RowsOf(recs)
        \o (IF CostDue(DiffOf(recs))
            THEN <<ToStringSlice(costRecord(now, RoundingSats(DiffOf(recs))))>>
            ELSE <<>>)

ReferenceInstant == CHOOSE now \in Instants : now.month = 1

\* C14 as stated: the output rows of a successful invocation are those of
\* any other invocation on the same input rows and addCost, here the one
\* at the reference instant.
C14_OutputDetermined ==
  (pc = "done" /\ ret = "nil") => out = OutputAt(ReferenceInstant)

\* Rows without the date of the row after the header and the n mapped rows.
WithoutCorrectionDate(rows, n) ==
  [i \in 1..Len(rows) |->
     IF i = n + 2 THEN [rows[i] EXCEPT ![1] = ""] ELSE rows[i]]

\* C14 amended: the output rows of a successful invocation are those of
\* any other invocation on the same input rows and addCost, whatever the
\* time and the verbose setting, but for the date of the correction entry;
\* they are identical when no correction entry is written.
C14_DeterminedButForDate ==
  (pc = "done" /\ ret = "nil") =>
     LET n == Len(RecordsOf(Tail(input)))
     IN  /\ WithoutCorrectionDate(out, n)
              = WithoutCorrectionDate(OutputAt(ReferenceInstant), n)
         /\ Len(out) < n + 2 => out = OutputAt(ReferenceInstant)

\* A verbose run that took place at another instant than the reference
\* has written a correction entry.
C14_Witness ==
  /\ pc = "done" /\ ret = "nil" /\ Verbose
  /\ Len(out) = 2 + Len(records)
  /\ Len(records) >= 1
  /\ out[Len(out)][1] # KoinlyDateFormat(ReferenceInstant)

\* C15: the records read, the rows written and their order, the residual
\* accumulated and the decision to write a correction entry are, at every
\* point of a run, what the input and addCost alone determine: the same
\* with Verbose set and not set.
C15_VerboseDiagnosticsOnly ==
  /\ pc = "writeHeader" => records = RecordsOf(Tail(input))
  /\ pc = "mapRows" =>
       /\ roundingDiff = DiffOf(SubSeq(records, 1, idx - 1))
       /\ SubSeq(out, 2, Len(out))
            = RowsOf(SubSeq(records, 1, Len(out) - 1))
  /\ AllWritten =>
       /\ roundingDiff = DiffOf(records)
       /\ MappedRows = RowsOf(records)
       /\ Len(out) = 2 + Len(records) <=> CostDue(DiffOf(records))

\* A verbose run has printed the lines of the mapper and has written two
\* mapped rows and the correction entry.
C15_Witness ==
  /\ pc = "done" /\ ret = "nil" /\ Verbose
  /\ Len(records) = 2
  /\ Len(out) = 4
  /\ \E i \in 1..Len(logs) : logs[i][1] = "Processing Phoenix Record"

\* The number of lines printed so far that start with the text.
LinesOf(text) == Cardinality({i \in 1..Len(logs) : logs[i][1] = text})

\* The numeric fields of the sample rows that are not 64-bit integers, and
\* how many of the numeric fields of the rows with a valid timestamp, and
\* how many rows without one, the rows hold.
UnparseableNumbers == {"n/a", "9223372036854775808"}

RECURSIVE DefaultedFields(_)
DefaultedFields(rows) ==
  IF Len(rows) = 0 THEN 0
  ELSE (IF HasValidTs(Head(rows))
        THEN Cardinality({j \in {4, 7, 9} :
                            Head(rows)[j] \in UnparseableNumbers})
        ELSE 0) + DefaultedFields(Tail(rows))

RECURSIVE DroppedRows(_)
DroppedRows(rows) ==
  IF Len(rows) = 0 THEN 0
  ELSE (IF HasValidTs(Head(rows)) THEN 0 ELSE 1) + DroppedRows(Tail(rows))

\* C16 as stated: when the rows have been read, one line has been printed
\* for every row dropped for its timestamp and one for every numeric field
\* defaulted to zero, with Verbose set or not.
C16_WarningForEveryAnomaly ==
  pc = "writeHeader" =>
     /\ LinesOf("Error parsing record") = DroppedRows(Tail(input))
     /\ LinesOf("Warning: failed to parse") = DefaultedFields(Tail(input))

\* C17: the entry and the residual ToKoinlyRecord returns for a
\* transaction are those it returns for the transaction with both fees set
\* to zero: transactions that differ in their fees only are mapped alike.
C17_FeesHaveNoInfluence ==
  pc = "mapped" =>
     res = ToKoinlyRecord([arg.p EXCEPT !.MiningFeeSat = 0,
                                        !.ServiceFeeMsat = 0])

\* A receipt with a mining fee and a service fee has been mapped.
C17_Witness ==
  /\ pc = "mapped"
  /\ arg.p.Type = "lightning_received"
  /\ arg.p.AmountMillisats = 1000000000
  /\ arg.p.MiningFeeSat = 150 /\ arg.p.ServiceFeeMsat = 4000
  /\ res.k.ReceivedAmount = "0.01000000"
  /\ res.diff = 0

\* The instant Go's time.Parse gives a valid sample timestamp.
WantTime(field) ==
  CASE field = "2024-05-01T12:00:00.000Z" ->
         [ok |-> TRUE, year |-> 2024, month |-> 5, day |-> 1, hour |-> 12,
          min |-> 0, sec |-> 0, nsec |-> 0]
    [] field = "2024-02-29T8:30:15Z" ->
         [ok |-> TRUE, year |-> 2024, month |-> 2, day |-> 29, hour |-> 8,
          min |-> 30, sec |-> 15, nsec |-> 0]
    [] field = "2024-05-01T12:00:00.123456Z" ->
         [ok |-> TRUE, year |-> 2024, month |-> 5, day |-> 1, hour |-> 12,
          min |-> 0, sec |-> 0, nsec |-> 123456000]

\* The row with the fields the parser does not read (fields 1, 4, 5, 7, 9,
\* 10 and 12, counted from 0) made empty.
UnusedBlanked(record) ==
  [j \in 1..Len(record) |->
     IF j \in {2, 5, 6, 8, 10, 11, 13} THEN "" ELSE record[j]]

\* C18: for a 14-field row with a valid timestamp ParsePhoenixRecord
\* returns the record made of the instant of field 0, field 2 as kind, the
\* integer values of fields 3, 6 and 8 as amount, mining fee and service
\* fee, and fields 11 and 13 unchanged as external id and memo; it returns
\* the same for the row with the other fields made empty.
C18_FieldsByPosition ==
  (pc = "parsed" /\ Len(arg) = 14 /\ WantTs(arg[1])) =>
     /\ res.st = "ok"
     /\ res.rec = [Timestamp       |-> WantTime(arg[1]),
                   Type            |-> arg[3],
                   AmountMillisats |-> WantInt(arg[4]),
                   MiningFeeSat    |-> WantInt(arg[7]),
                   ServiceFeeMsat  |-> WantInt(arg[9]),
                   TransactionID   |-> arg[12],
                   Description     |-> arg[14]]
     /\ res = ParsePhoenixRecord(UnusedBlanked(arg))

\* A row whose unused fields are filled has been parsed.
C18_Witness ==
  /\ pc = "parsed"
  /\ arg[1] = "2024-02-29T8:30:15Z"
  /\ arg[2] = "7" /\ arg[11] = "7" /\ arg[13] = "7"
  /\ arg[4] = "1,500"
  /\ res.st = "ok"
  /\ res.rec.AmountMillisats = 1500
  /\ res.rec.TransactionID = "tx1"
  /\ res.rec.Description = "a \"b\", c"
  /\ res.rec.Timestamp.hour = 8

\* A transaction of a recognised kind whose amount is a whole number of
\* satoshis has been mapped.
MappedWholeSats ==
  /\ pc = "mapped"
  /\ arg.p.Type \in RecognisedKinds
  /\ arg.p.AmountMillisats % msatsPerSat = 0

\* C19 as stated: for a recognised kind and a whole number of satoshis of
\* any sign the residual is below one satoshi.
C19_WholeSatsNoResidual ==
  MappedWholeSats => Abs(res.diff) < msatsPerSat

\* C19 amended: for a recognised kind and a whole number of satoshis the
\* residual is zero when the kind is a received kind or the amount is not
\* positive; for a sent or fee kind and a positive amount it is twice the
\* amount.
C19_WholeSatsResidualBySign ==
  MappedWholeSats =>
     IF arg.p.Type \in SentOrFeeKinds /\ arg.p.AmountMillisats > 0
     THEN res.diff = 2 * arg.p.AmountMillisats
     ELSE res.diff = 0

\* A receipt of a negative whole number of satoshis has been mapped.
C19_Witness ==
  /\ pc = "mapped"
  /\ arg.p.Type = "swap_in"
  /\ arg.p.AmountMillisats = -150000
  /\ res.k.ReceivedAmount = "-0.00000150"
  /\ res.diff = 0

\* No sent or fee row of the run has a positive amount.
ConventionalSigns ==
  \A i \in 1..Len(records) :
     records[i].Type \in SentOrFeeKinds => records[i].AmountMillisats <= 0

\* C20 as stated: in a run with the adjustment enabled (and amounts of the
\* conventional sign) the balance of all emitted entries, the correction
\* entry included, differs from the net balance of the input by less than
\* one satoshi, whatever the sign of the accumulated residual.
C20_CorrectionReconciles ==
  (pc = "done" /\ ret = "nil" /\ addCost /\ ConventionalSigns) =>
     Abs(BalanceError(Tail(out))) < msatsPerSat

\* The satoshis of a sample amount of whole satoshis, without its sign.
IsWholeSats(amount) ==
  \/ amount = "0"
  \/ Len(amount) > 3 /\ SubSeq(amount, Len(amount) - 2, Len(amount)) = "000"

MagnitudeSats(amount) ==
  LET digits == IF Head(amount) = "-" THEN Tail(amount) ELSE amount
  IN  SubSeq(digits, 1, Len(digits) - 3)

\* A whole number of satoshis written as BTC with 8 decimals.
ExactBTC(sats) ==
  LET s == ZeroPad(sats, 9)
  IN  SubSeq(s, 1, Len(s) - 8) \o "." \o SubSeq(s, Len(s) - 7, Len(s))

\* A recognised kind and a whole number of satoshis of the conventional
\* sign have been mapped.
MappedConventional ==
  /\ pc = "mapped64"
  /\ arg.Type \in RecognisedKinds
  /\ IsWholeSats(arg.Amount)
  /\ IF arg.Type \in SentOrFeeKinds
     THEN arg.Amount = "0" \/ Head(arg.Amount) = "-"
     ELSE Head(arg.Amount) # "-"

\* |x| < 10^-9 and |x| <= n * 2^-51, for a binary64 x and a natural n.
BelowBillionth(x) ==
  \/ Len(x.m) = 0
  \/ /\ x.e < 0
     /\ BigCmp(BigMul(BigMul(BigMul(x.m, 1000), 1000), 1000),
               BigShl(<<1>>, 0 - x.e)) < 0

WithinTwoUlps(x, n) ==
  \/ Len(x.m) = 0
  \/ IF x.e + 51 >= 0 THEN BigCmp(BigShl(x.m, x.e + 51), n) <= 0
     ELSE BigCmp(x.m, BigShl(n, 0 - (x.e + 51))) <= 0

\* C13 as stated: for a recognised kind and a whole number of satoshis of
\* the conventional sign the amount field is the exact magnitude in BTC
\* with 8 decimals, and the magnitude of the residual is below 1e-9
\* satoshi.
C13_ExactAmountZeroResidual ==
  MappedConventional =>
     /\ res.amt = ExactBTC(MagnitudeSats(arg.Amount))
     /\ BelowBillionth(res.diff)

\* C13 amended: the amount field is the exact magnitude in BTC with 8
\* decimals; the magnitude of the residual is at most the amount times
\* 2^-51, and it is below 1e-9 satoshi for amounts up to 2,000,000
\* satoshis (0.02 BTC).
C13_ExactAmountResidualNoise ==
  MappedConventional =>
     /\ res.amt = ExactBTC(MagnitudeSats(arg.Amount))
     /\ WithinTwoUlps(res.diff, BigOfDigits(MagnitudeSats(arg.Amount)))
     /\ BigCmp(BigOfDigits(MagnitudeSats(arg.Amount)),
               BigOfInt(2000000)) <= 0
          => BelowBillionth(res.diff)

\* One of the three amounts of the tests has been mapped, without fused
\* arithmetic: the amount field is exact and the residual is 0.
C13_Witness ==
  /\ pc = "mapped64"
  /\ \/ arg.Type = "lightning_received" /\ arg.Amount = "1000000000"
        /\ res.amt = "0.01000000"
     \/ arg.Type = "lightning_sent" /\ arg.Amount = "-200000000"
        /\ res.amt = "0.00200000"
     \/ arg.Type = "channel_close" /\ arg.Amount = "-150000"
        /\ res.amt = "0.00000150"
  /\ ~arg.fused
  /\ Len(res.diff.m) = 0

\* The amounts an entry carries, and the quantity an amount string denotes
\* (in millisatoshi).
AmountsOf(k) == {a \in {k.SentAmount, k.ReceivedAmount, k.FeeAmount} : a # ""}

Denotes(a) == ParseFloat(a) * msatsPerSat

\* C21 as stated: every non-empty sent, received or fee amount of the entry
\* ToKoinlyRecord returns for a recognised kind denotes a non-negative
\* quantity, whatever the sign of the amount in millisatoshi.
C21_AmountsNonNegative ==
  (pc = "mapped" /\ arg.p.Type \in RecognisedKinds) =>
     \A a \in AmountsOf(res.k) : Denotes(a) >= 0

\* C22: the first row of the input is the header whatever it holds: the
\* records read and the entries written come from the rows after it, also
\* when the first row is a well-formed data row; and a run on an input
\* without any row ends in an error with nothing written, not even the
\* output header.
C22_FirstRowIsHeader ==
  /\ records = RecordsOf(SubSeq(input, 2, pos - 1))
  /\ pc = "writeHeader" => records = RecordsOf(Tail(input))
  /\ AllWritten => MappedRows = RowsOf(RecordsOf(Tail(input)))
  /\ Len(input) = 0 =>
        /\ pc \in {"readHeader", "done"}
        /\ out = <<>> /\ nbuf = 0 /\ sunk = 0
        /\ pc = "done" => ret = "error"

\* The first row is a well-formed data row and the run has ended well: the
\* output holds the header and one entry, that of the second row.
C22_Witness ==
  /\ pc = "done" /\ ret = "nil"
  /\ Len(input) = 2
  /\ ParsePhoenixRecord(input[1]).st = "ok"
  /\ input[1][3] = "legacy_swap_in" /\ input[2][3] = "swap_out"
  /\ Len(out) >= 2
  /\ out[2][2] = "0.00000005" /\ out[2][4] = ""
  /\ \A i \in 1..Len(out) : out[i][4] # "0.00000003"

\* The positions of the output that hold a correction entry, and the bytes
\* the serializer makes of a sequence of rows.
CorrectionRows ==
  {i \in 1..Len(out) :
     /\ out[i][10] = "cost"
     /\ out[i][11] = "Adjustment for rounding differences"
     /\ out[i][12] = ""}

RECURSIVE BytesOf(_)
BytesOf(rows) ==
  IF Len(rows) = 0 THEN 0 ELSE RowBytes(Head(rows)) + BytesOf(Tail(rows))

\* C23: every data row that parses gives exactly one output row.  While
\* the records are mapped the output holds the header and one row for each
\* record mapped so far; in a run that wrote its output the number of rows
\* is 1 for the header, plus the number of data rows with a parseable
\* timestamp, plus 1 if there is a correction entry, and the row after the
\* header at distance i carries the id and the memo of the i-th such data
\* row; and when the sink took every write, it holds the bytes of exactly
\* these rows.
C23_OneRowPerParsedRow ==
  /\ pc = "mapRows" => Len(out) = idx
  /\ AllWritten =>
       /\ Cardinality(CorrectionRows) <= 1
       /\ Len(out) = 1 + Len(ParseableRows) + Cardinality(CorrectionRows)
       /\ \A i \in 1..Len(ParseableRows) :
            /\ out[i + 1][12] = ParseableRows[i][12]
            /\ out[i + 1][11] = ParseableRows[i][14]
  /\ (pc = "done" /\ ret = "nil" /\ ~werr) =>
       nbuf = 0 /\ sunk = BytesOf(out)

\* A run on three data rows, one with an unparseable timestamp and one of
\* an unknown kind, has written the header, two entries and the correction.
C23_Witness ==
  /\ pc = "done" /\ ret = "nil" /\ ~werr
  /\ Len(input) = 4
  /\ Len(ParseableRows) = 2
  /\ \E i \in 2..4 : input[i][12] = "tx10"
  /\ \E i \in 2..4 : input[i][12] = "tx9"
  /\ Len(out) = 4
  /\ CorrectionRows = {4}
  /\ sunk = BytesOf(out)

\* The currency that goes with an amount field, and the rows written after
\* the header.
CurrencyFor(amount) == IF amount # "" THEN "BTC" ELSE ""
EmittedRows == {out[i] : i \in 2..Len(out)}

\* C24: in every emitted row, of a mapped entry or of the correction
\* entry, the sent, received and fee currency is "BTC" when the amount
\* beside it is non-empty and empty when that amount is empty, and the
\* label is non-empty exactly when one of the three amounts is.
C24_CurrencyAndLabelFollowAmounts ==
  \A row \in EmittedRows :
    /\ row[3] = CurrencyFor(row[2])
    /\ row[5] = CurrencyFor(row[4])
    /\ row[7] = CurrencyFor(row[6])
    /\ (row[10] # "") <=> (row[2] # "" \/ row[4] # "" \/ row[6] # "")

\* A finished run wrote an entry of an unknown kind (no amount, no label),
\* a fee entry of a channel_close, a sent entry, and the correction entry.
C24_Witness ==
  /\ pc = "done" /\ ret = "nil"
  /\ CorrectionRows # {}
  /\ \E row \in EmittedRows :
       row[12] = "tx9" /\ row[10] = "" /\ row[2] = "" /\ row[4] = ""
          /\ row[6] = ""
  /\ \E row \in EmittedRows :
       row[12] = "tx3" /\ row[6] = "0.00000002" /\ row[7] = "BTC"
          /\ row[10] = "cost"
  /\ \E row \in EmittedRows :
       row[12] = "tx6" /\ row[2] = "0.00000005" /\ row[3] = "BTC"
          /\ row[10] = "transfer"

\* C25: the net-worth amount and the net-worth currency are empty in every
\* row written after the header, in every state of every run: in the rows
\* of mapped entries of any kind and in the row of the correction entry.
C25_NetWorthEmpty ==
  \A i \in 2..Len(out) : out[i][8] = "" /\ out[i][9] = ""

\* A finished run wrote a received entry, a sent entry and the correction
\* entry, under a header that names the two net-worth columns.
C25_Witness ==
  /\ pc = "done" /\ ret = "nil"
  /\ Len(out) = 4
  /\ out[1][8] = "Net Worth Amount" /\ out[1][9] = "Net Worth Currency"
  /\ {out[2][12], out[3][12]} = {"tx4", "tx6"}
  /\ CorrectionRows = {4}
  /\ out[4][6] # "" /\ out[4][8] = "" /\ out[4][9] = ""

====
